---- MODULE Spec2Model ----
(***************************************************************************)
(* Model of backend/services/mystat_client.py: the APIClient session       *)
(* (client_data), login / token refresh, the authenticated GET dispatcher  *)
(* with its single retry on 401, the accessors built on it and the two     *)
(* write operations.                                                       *)
(*                                                                         *)
(* The HTTP transport is the blocking `requests` library, so a coroutine   *)
(* of the client never suspends: one client call runs at a time.  The      *)
(* provider (login answers, HTTP statuses and bodies) and the wall clock   *)
(* are the environment; they are chosen nondeterministically.              *)
(***************************************************************************)
EXTENDS Integers, Sequences, FiniteSets, TLC

\* ---------------------------------------------------------------- bounds
MaxNowSec == 2          \* the clock runs over 1 .. MaxNowSec seconds
MaxLifetime == 2        \* expires_in_access answered by the provider, seconds

\* ------------------------------------------------------------- constants
MsPerSec == 1000        \* the factor of `expires_in_access * 1000`
NoneInt == 0 - 1        \* Python None in an Optional[int] field
NoneStr == "None"       \* Python None in an Optional[str] field

Tokens == {"t1", "t2"}                  \* access tokens the provider issues
Lifetimes == 1 .. MaxLifetime
Statuses == {200, 401, 500}
Bodies == {"null", "empty", "data0", "data7"}   \* response bodies (JSON text)
Credentials == [username |-> "login", password |-> "pass"]
APP_KEY == "6a56a5df"

ConfigTokens == {NoneStr, "t0"}
ConfigExpiries == {NoneInt, 0, 2 * MsPerSec}
ConfigGroups == {NoneInt, 7}
ConfigLanguages == {"", "ru"}

\* ClientConfig: the configurations a caller may construct
ClientConfig ==
    [login_data : {Credentials}, language : ConfigLanguages, cache : {NoneStr},
     access_token : ConfigTokens, token_expires_at : ConfigExpiries,
     group_id : ConfigGroups, on_unauthorized : BOOLEAN]

\* self.client_data = None
NoClientData == [absent |-> TRUE]

\* ClientData(...)
ClientData(ld, lang, cache, tok, exp, gid) ==
    [login_data |-> ld, language |-> lang, cache |-> cache,
     access_token |-> tok, token_expires_at |-> exp, group_id |-> gid]

\* Python truthiness of an Optional[str] / Optional[int]
TruthyStr(s) == s /= NoneStr /\ s /= ""
TruthyInt(n) == n /= NoneInt /\ n /= 0

\* ---------------------------------------------------------------- paths
UserInfoPath == [url |-> "settings/user-info", group_id |-> NoneInt]
SchedulePath == [url |-> "schedule/operations/get-by-date", group_id |-> NoneInt]
NewsDetailsPath == [url |-> "news/operations/detail-news", group_id |-> NoneInt]
HomeworkListPath(gid) == [url |-> "homework/operations/list", group_id |-> gid]
UploadPath == [url |-> "homework/operations/create", group_id |-> NoneInt]
DeletePath == [url |-> "homework/operations/delete", group_id |-> NoneInt]
NoPath == [url |-> "-", group_id |-> NoneInt]

\* -------------------------------------------------------------- results
NoResult == [tag |-> "unset", val |-> "-"]
PyNone == [tag |-> "None", val |-> "-"]
\* response.json(): the JSON text null parses to None
ParseJson(body) == IF body = "null" THEN PyNone ELSE [tag |-> "json", val |-> body]
\* [Record(**entry) for entry in response] / Record(**response)
MapRecords(r) == [tag |-> "records", val |-> r.val]
PyBool(b) == [tag |-> "bool", val |-> IF b THEN "True" ELSE "False"]
\* `not user_info`: None and an empty object are falsy
Falsy(r) == r = PyNone \/ (r.tag = "json" /\ r.val = "empty")
\* user_info["current_group_id"]
CurrentGroupId(r) == IF r.val = "data0" THEN 0 ELSE 7

\* exceptions: what was raised and the argument it carries
PyText(body) == [tag |-> "text", val |-> body]
Err(msg, arg) == [msg |-> msg, arg |-> arg]
NoError == Err("-", NoResult)
ErrNotInitialized == Err("Client not initialized", NoResult)
ErrUnauthorized == Err("Access token is expired or invalid", NoResult)
ErrAuthentication == Err("login rejected", NoResult)     \* raise Exception(user)
ErrNoGroup == Err("Unable to get user group id", NoResult)
ErrTypeError == Err("TypeError", NoResult)               \* iterating / unpacking None
ErrRequestFailed(arg) == Err("request failed", arg)      \* raise Exception(<body>)

\* ------------------------------------------------------------ event log
\* What the client did during the call in progress, in order: event names.
EvCheck(expired) == IF expired THEN "check_expired" ELSE "check_valid"
EvLoginOk == "login_ok"
EvLoginRejected == "login_rejected"
EvSend == "send"
EvResp(status) == IF status = 401 THEN "resp_401"
                  ELSE IF status >= 400 THEN "resp_error" ELSE "resp_ok"
EvCallback == "callback"

NoLoginReq == [application_key |-> "-", id_city |-> NoneStr,
               username |-> "-", password |-> "-"]
\* AuthResponse: the fields of a successful login answer the client reads
AuthResponse(tok, life) == [access_token |-> tok, expires_in_access |-> life]
NoUser == [access_token |-> "-", expires_in_access |-> 0]
\* an authenticated request: its headers and path
Request(cd, p) == [authorization |-> cd.access_token, language |-> cd.language,
                   path |-> p]
NoRequest == [authorization |-> "-", language |-> "-", path |-> NoPath]
Response(status, body) == [status_code |-> status, text |-> body]
NoResponse == [status_code |-> 0, text |-> "-"]

VARIABLES
    config,       \* self.config
    client_data,  \* self.client_data
    now,          \* datetime.now().timestamp() * 1000
    pc,           \* position of the call in progress
    kind,         \* the public method that was called
    path,         \* argument of the get in progress
    retry,        \* argument of the get in progress
    after,        \* where the login in progress returns to
    phase,        \* homework accessors: "userinfo" or "main"
    getStart,     \* index in log of the first event of the outermost get
    log,          \* events of the call in progress
    login_req,    \* body of the latest POST auth/login
    user,         \* the latest AuthResponse
    request,      \* the latest authenticated request
    response,     \* the latest response to an authenticated request
    callback_arg, \* argument of the latest on_unauthorized invocation
    result,       \* value returned to the caller
    error,        \* exception raised to the caller
    task_pc,      \* concurrent calls: position of each task's get
    task_auth,    \* concurrent calls: bearer token of the latest request
    issued        \* concurrent calls: the AuthResponses answered so far

\* the state of one call at a time, and the state of concurrent tasks
callvars == <<pc, kind, path, retry, after, phase, getStart, log, login_req,
              user, request, response, callback_arg, result, error>>
taskvars == <<task_pc, task_auth, issued>>
vars == <<config, client_data, now, callvars, taskvars>>

\* the tasks a caller gathers against one client
NumTasks == 2
Tasks == 1 .. NumTasks

\* occurrences of an event in a log
Count(seq, e) == Cardinality({i \in DOMAIN seq : seq[i] = e})

Idle == pc \in {"idle", "done"}

\* body of requests.post(auth/login) in auth_user
LoginBody(login_data) ==
    [application_key |-> APP_KEY, id_city |-> NoneStr,
     username |-> login_data.username, password |-> login_data.password]

\* is_token_expired with a strict comparison
is_token_expired_Strict(cd, t) ==
    IF cd = NoClientData THEN TRUE ELSE t > cd.token_expires_at

\* APIClient.is_token_expired
is_token_expired(cd, t) ==
    IF cd = NoClientData THEN TRUE ELSE t >= cd.token_expires_at

\* APIClient.__init__
Init ==
    /\ config \in ClientConfig
    /\ client_data = NoClientData
    /\ now = MsPerSec
    /\ pc = "idle"
    /\ kind = "-"
    /\ path = NoPath
    /\ retry = TRUE
    /\ after = "-"
    /\ phase = "-"
    /\ getStart = 1
    /\ log = <<>>
    /\ login_req = NoLoginReq
    /\ user = NoUser
    /\ request = NoRequest
    /\ response = NoResponse
    /\ callback_arg = NoPath
    /\ result = NoResult
    /\ error = NoError
    /\ task_pc = [t \in Tasks |-> "off"]
    /\ task_auth = "-"
    /\ issued = {}

\* the wall clock advances while the client is idle or waits for the provider
Tick ==
    /\ pc \in {"idle", "done", "login", "send"}
    /\ now + MsPerSec <= MaxNowSec * MsPerSec
    /\ now' = now + MsPerSec
    /\ UNCHANGED <<taskvars, config, client_data, pc, kind, path, retry, after, phase,
                   getStart, log, login_req, user, request, response,
                   callback_arg, result, error>>

\* a public method is entered: the per-call bookkeeping starts afresh
BeginCall(k, p, ph) ==
    /\ Idle
    /\ kind' = k
    /\ path' = p
    /\ phase' = ph
    /\ retry' = TRUE
    /\ getStart' = 1
    /\ log' = <<>>
    /\ user' = NoUser
    /\ request' = NoRequest
    /\ response' = NoResponse
    /\ callback_arg' = NoPath
    /\ result' = NoResult
    /\ error' = NoError

\* raise: the call in progress ends with an exception
Raise(e) ==
    /\ pc' = "done"
    /\ error' = e
    /\ result' = NoResult

\* await self.auth_user(login_data): the POST goes out
StartLogin(ld, ret) ==
    /\ pc' = "login"
    /\ after' = ret
    /\ login_req' = LoginBody(ld)

\* initialize adopting the config when a token or an expiry is supplied
Initialize_EitherSupplied ==
    /\ BeginCall("initialize", NoPath, "-")
    /\ IF TruthyStr(config.access_token) \/ TruthyInt(config.token_expires_at)
       THEN /\ client_data' = ClientData(config.login_data, config.language,
                                         config.cache, config.access_token,
                                         config.token_expires_at, config.group_id)
            /\ pc' = "done"
            /\ UNCHANGED <<after, login_req>>
       ELSE /\ StartLogin(config.login_data, "initialize")
            /\ UNCHANGED client_data
    /\ UNCHANGED <<taskvars, config, now>>

\* APIClient.initialize, up to the login request
Initialize ==
    /\ BeginCall("initialize", NoPath, "-")
    /\ IF TruthyStr(config.access_token) /\ TruthyInt(config.token_expires_at)
       THEN /\ client_data' = ClientData(config.login_data, config.language,
                                         config.cache, config.access_token,
                                         config.token_expires_at, config.group_id)
            /\ pc' = "done"
            /\ UNCHANGED <<after, login_req>>
       ELSE /\ StartLogin(config.login_data, "initialize")
            /\ UNCHANGED client_data
    /\ UNCHANGED <<taskvars, config, now>>

\* the ClientData initialize builds from an AuthResponse
InitializeFromLogin(u) ==
    ClientData(config.login_data,
               IF config.language /= "" THEN config.language ELSE "en",
               config.cache, u.access_token,
               u.expires_in_access * MsPerSec, config.group_id)

\* APIClient.initialize, after auth_user returned an AuthResponse
InitializeLogin ==
    /\ pc = "login" /\ after = "initialize"
    /\ \E tok \in Tokens, life \in Lifetimes :
         /\ user' = AuthResponse(tok, life)
         /\ client_data' = InitializeFromLogin(AuthResponse(tok, life))
    /\ log' = Append(log, EvLoginOk)
    /\ pc' = "done"
    /\ UNCHANGED <<taskvars, config, now, kind, path, retry, after, phase, getStart,
                   login_req, request, response, callback_arg, result, error>>

\* a rejected login answered by another login attempt
LoginRejected_Relogin ==
    /\ pc = "login"
    /\ log' = Append(log, EvLoginRejected)
    /\ IF Count(log, EvLoginRejected) = 0
       THEN StartLogin(config.login_data, after) /\ UNCHANGED <<result, error>>
       ELSE Raise(ErrAuthentication) /\ UNCHANGED <<after, login_req>>
    /\ UNCHANGED <<taskvars, config, client_data, now, kind, path, retry, phase,
                   getStart, user, request, response, callback_arg>>

\* a rejected login that clears the Session
LoginRejected_ClearsSession ==
    /\ pc = "login"
    /\ log' = Append(log, EvLoginRejected)
    /\ Raise(ErrAuthentication)
    /\ client_data' = NoClientData
    /\ UNCHANGED <<taskvars, config, now, kind, path, retry, after, phase,
                   getStart, login_req, user, request, response, callback_arg>>

\* auth_user returned a list of AuthError: initialize and update_token raise
LoginRejected ==
    /\ pc = "login"
    /\ log' = Append(log, EvLoginRejected)
    /\ Raise(ErrAuthentication)
    /\ UNCHANGED <<taskvars, config, client_data, now, kind, path, retry, after, phase,
                   getStart, login_req, user, request, response, callback_arg>>

\* a caller invokes update_token() directly
CallUpdateToken ==
    /\ BeginCall("update_token", NoPath, "-")
    /\ StartLogin(config.login_data, "return")
    /\ UNCHANGED <<taskvars, config, client_data, now>>

\* update_token storing the expiry but not the token
UpdatedClientData_ExpiryOnly(cd, u) ==
    IF cd /= NoClientData
    THEN [cd EXCEPT !.token_expires_at = u.expires_in_access * MsPerSec]
    ELSE cd

\* update_token replacing the Session wholesale, as initialize builds it
UpdatedClientData_Rebuilt(cd, u) ==
    IF cd /= NoClientData THEN InitializeFromLogin(u) ELSE cd

\* update_token storing the token but not the expiry
UpdatedClientData_TokenOnly(cd, u) ==
    IF cd /= NoClientData
    THEN [cd EXCEPT !.access_token = u.access_token]
    ELSE cd

\* the Session update_token leaves behind, given the AuthResponse
UpdatedClientData(cd, u) ==
    IF cd /= NoClientData
    THEN [cd EXCEPT !.access_token = u.access_token,
                    !.token_expires_at = u.expires_in_access * MsPerSec]
    ELSE cd

\* APIClient.update_token, after auth_user returned an AuthResponse, and the
\* statement of the caller that follows `await self.update_token()`
UpdateToken ==
    /\ pc = "login" /\ after /= "initialize"
    /\ \E tok \in Tokens, life \in Lifetimes :
         /\ user' = AuthResponse(tok, life)
         /\ client_data' = UpdatedClientData(client_data, AuthResponse(tok, life))
    /\ log' = Append(log, EvLoginOk)
    /\ CASE after = "return" -> pc' = "done" /\ UNCHANGED retry
         [] after = "send" -> pc' = "send" /\ UNCHANGED retry
         [] after = "retry" -> pc' = "get_entry" /\ retry' = FALSE
    /\ UNCHANGED <<taskvars, config, now, kind, path, after, phase, getStart,
                   login_req, request, response, callback_arg, result, error>>

GetKinds == {"get", "get_schedule_by_date", "get_news_details",
             "get_homework_list", "get_homework_by_type"}
HomeworkKinds == {"get_homework_list", "get_homework_by_type"}
WriteKinds == {"upload_homework", "delete_homework"}
AuthKinds == GetKinds \cup WriteKinds

\* a caller invokes get(path) directly or through a pass-through accessor
\* (get_user_info, get_user_settings, get_activity_log, ...)
CallGet ==
    /\ BeginCall("get", UserInfoPath, "main")
    /\ pc' = "get_entry"
    /\ UNCHANGED <<taskvars, config, client_data, now, after, login_req>>

\* get_schedule_by_date and the other accessors that map a returned array
CallGetScheduleByDate ==
    /\ BeginCall("get_schedule_by_date", SchedulePath, "main")
    /\ pc' = "get_entry"
    /\ UNCHANGED <<taskvars, config, client_data, now, after, login_req>>

\* get_news_details: maps one returned object
CallGetNewsDetails ==
    /\ BeginCall("get_news_details", NewsDetailsPath, "main")
    /\ pc' = "get_entry"
    /\ UNCHANGED <<taskvars, config, client_data, now, after, login_req>>

\* get_homework_list / get_homework_by_type, up to their first get
CallGetHomework ==
    /\ \E k \in HomeworkKinds :
         IF client_data = NoClientData \/ ~TruthyInt(client_data.group_id)
         THEN BeginCall(k, UserInfoPath, "userinfo")
         ELSE BeginCall(k, HomeworkListPath(client_data.group_id), "main")
    /\ pc' = "get_entry"
    /\ UNCHANGED <<taskvars, config, client_data, now, after, login_req>>

\* the entry check without the optimistic refresh
EntryCheck_NoRefresh ==
    IF client_data = NoClientData
    THEN /\ Raise(ErrNotInitialized)
         /\ UNCHANGED <<log, after, login_req>>
    ELSE /\ log' = Append(log, EvCheck(is_token_expired(client_data, now)))
         /\ pc' = "send"
         /\ UNCHANGED <<after, login_req, result, error>>

\* the entry check without the initialization check
EntryCheck_NoInitCheck ==
    IF is_token_expired(client_data, now)
    THEN /\ log' = Append(log, EvCheck(TRUE))
         /\ StartLogin(config.login_data, "send")
         /\ UNCHANGED <<result, error>>
    ELSE /\ log' = Append(log, EvCheck(FALSE))
         /\ pc' = "send"
         /\ UNCHANGED <<after, login_req, result, error>>

\* the first lines of get, upload_homework and delete_homework: the
\* initialization check and the optimistic refresh
EntryCheck ==
    IF client_data = NoClientData
    THEN /\ Raise(ErrNotInitialized)
         /\ UNCHANGED <<log, after, login_req>>
    ELSE IF is_token_expired(client_data, now)
    THEN /\ log' = Append(log, EvCheck(TRUE))
         /\ StartLogin(config.login_data, "send")
         /\ UNCHANGED <<result, error>>
    ELSE /\ log' = Append(log, EvCheck(FALSE))
         /\ pc' = "send"
         /\ UNCHANGED <<after, login_req, result, error>>

\* APIClient.get, from its first line to the request
GetEntry ==
    /\ pc = "get_entry"
    /\ EntryCheck
    /\ UNCHANGED <<taskvars, config, client_data, now, kind, path, retry, phase, getStart,
                   user, request, response, callback_arg>>

\* get retrying on every 401, whatever its retry argument
HandleGetResponse_AlwaysRetry(status, body) ==
    IF status = 401
    THEN IF config.on_unauthorized
         THEN /\ log' = log \o <<EvSend, EvResp(status), EvCallback>>
              /\ callback_arg' = path
              /\ result' = PyNone
              /\ pc' = "get_return"
              /\ UNCHANGED <<after, login_req, error>>
         ELSE /\ log' = log \o <<EvSend, EvResp(status)>>
              /\ StartLogin(config.login_data, "retry")
              /\ UNCHANGED <<callback_arg, result, error>>
    ELSE /\ log' = log \o <<EvSend, EvResp(status)>>
         /\ result' = ParseJson(body)
         /\ pc' = "get_return"
         /\ UNCHANGED <<callback_arg, after, login_req, error>>

\* get trying its retry before it looks at on_unauthorized
HandleGetResponse_RetryFirst(status, body) ==
    IF status = 401
    THEN IF retry
         THEN /\ log' = log \o <<EvSend, EvResp(status)>>
              /\ StartLogin(config.login_data, "retry")
              /\ UNCHANGED <<callback_arg, result, error>>
         ELSE IF config.on_unauthorized
         THEN /\ log' = log \o <<EvSend, EvResp(status), EvCallback>>
              /\ callback_arg' = path
              /\ result' = PyNone
              /\ pc' = "get_return"
              /\ UNCHANGED <<after, login_req, error>>
         ELSE /\ log' = log \o <<EvSend, EvResp(status)>>
              /\ Raise(ErrUnauthorized)
              /\ UNCHANGED <<callback_arg, after, login_req>>
    ELSE /\ log' = log \o <<EvSend, EvResp(status)>>
         /\ result' = ParseJson(body)
         /\ pc' = "get_return"
         /\ UNCHANGED <<callback_arg, after, login_req, error>>

\* APIClient.get, what follows a response: callback, forced refresh and
\* retry, error, or the parsed payload
HandleGetResponse(status, body) ==
    IF status = 401
    THEN IF config.on_unauthorized
         THEN /\ log' = log \o <<EvSend, EvResp(status), EvCallback>>
              /\ callback_arg' = path
              /\ result' = PyNone
              /\ pc' = "get_return"
              /\ UNCHANGED <<after, login_req, error>>
         ELSE IF retry
         THEN /\ log' = log \o <<EvSend, EvResp(status)>>
              /\ StartLogin(config.login_data, "retry")
              /\ UNCHANGED <<callback_arg, result, error>>
         ELSE /\ log' = log \o <<EvSend, EvResp(status)>>
              /\ Raise(ErrUnauthorized)
              /\ UNCHANGED <<callback_arg, after, login_req>>
    ELSE /\ log' = log \o <<EvSend, EvResp(status)>>
         /\ result' = ParseJson(body)
         /\ pc' = "get_return"
         /\ UNCHANGED <<callback_arg, after, login_req, error>>

\* APIClient.get, the request and the handling of its response
HttpGet ==
    /\ pc = "send" /\ kind \in GetKinds
    /\ request' = Request(client_data, path)
    /\ \E status \in Statuses, body \in Bodies :
         /\ response' = Response(status, body)
         /\ HandleGetResponse(status, body)
    /\ UNCHANGED <<taskvars, config, client_data, now, kind, path, retry, phase, getStart,
                   user>>

\* get_user_info and the other pass-through accessors: return await self.get(...)
ReturnGet ==
    /\ pc = "get_return" /\ kind = "get"
    /\ pc' = "done"
    /\ UNCHANGED <<taskvars, config, client_data, now, kind, path, retry, after, phase,
                   getStart, log, login_req, user, request, response,
                   callback_arg, result, error>>

\* [ScheduleEntry(**entry) for entry in response], NewsDetails(**response):
\* iterating or unpacking None raises TypeError
MapResponse(r) ==
    IF r = PyNone
    THEN Raise(ErrTypeError)
    ELSE pc' = "done" /\ result' = MapRecords(r) /\ UNCHANGED error

\* get_schedule_by_date, after get returned
ReturnScheduleByDate ==
    /\ pc = "get_return" /\ kind = "get_schedule_by_date"
    /\ MapResponse(result)
    /\ UNCHANGED <<taskvars, config, client_data, now, kind, path, retry, after, phase,
                   getStart, log, login_req, user, request, response,
                   callback_arg>>

\* get_news_details, after get returned
ReturnNewsDetails ==
    /\ pc = "get_return" /\ kind = "get_news_details"
    /\ MapResponse(result)
    /\ UNCHANGED <<taskvars, config, client_data, now, kind, path, retry, after, phase,
                   getStart, log, login_req, user, request, response,
                   callback_arg>>

\* homework accessors after get_user_info returned: store the group id and
\* start the list request
HomeworkGroupId ==
    /\ pc = "get_return" /\ kind \in HomeworkKinds /\ phase = "userinfo"
    /\ IF Falsy(result)
       THEN /\ Raise(ErrNoGroup)
            /\ UNCHANGED <<client_data, path, phase, getStart>>
       ELSE /\ client_data' = [client_data EXCEPT !.group_id = CurrentGroupId(result)]
            /\ path' = HomeworkListPath(CurrentGroupId(result))
            /\ phase' = "main"
            /\ getStart' = Len(log) + 1
            /\ pc' = "get_entry"
            /\ result' = NoResult
            /\ UNCHANGED error
    /\ retry' = TRUE
    /\ UNCHANGED <<taskvars, config, now, kind, after, log, login_req, user, request,
                   response, callback_arg>>

\* homework accessors: return await self.get(homework/operations/list...)
ReturnHomework ==
    /\ pc = "get_return" /\ kind \in HomeworkKinds /\ phase = "main"
    /\ pc' = "done"
    /\ UNCHANGED <<taskvars, config, client_data, now, kind, path, retry, after, phase,
                   getStart, log, login_req, user, request, response,
                   callback_arg, result, error>>

\* upload_homework is called
CallUploadHomework ==
    /\ BeginCall("upload_homework", UploadPath, "main")
    /\ pc' = "upload_entry"
    /\ UNCHANGED <<taskvars, config, client_data, now, after, login_req>>

\* upload_homework, from its first line to the request
UploadEntry ==
    /\ pc = "upload_entry"
    /\ EntryCheck
    /\ UNCHANGED <<taskvars, config, client_data, now, kind, path, retry, phase, getStart,
                   user, request, response, callback_arg>>

\* upload_homework handing a 401 to on_unauthorized, as get does
UploadSend_LikeGet ==
    /\ pc = "send" /\ kind = "upload_homework"
    /\ request' = Request(client_data, path)
    /\ \E status \in Statuses, body \in Bodies :
         /\ response' = Response(status, body)
         /\ IF status = 401 /\ config.on_unauthorized
            THEN /\ log' = log \o <<EvSend, EvResp(status), EvCallback>>
                 /\ callback_arg' = path
                 /\ pc' = "done" /\ result' = PyNone /\ UNCHANGED error
            ELSE /\ log' = log \o <<EvSend, EvResp(status)>>
                 /\ UNCHANGED callback_arg
                 /\ IF status >= 400
                    THEN Raise(ErrRequestFailed(ParseJson(body)))
                    ELSE pc' = "done" /\ result' = ParseJson(body) /\ UNCHANGED error
    /\ UNCHANGED <<taskvars, config, client_data, now, kind, path, retry, after, phase,
                   getStart, login_req, user>>

\* upload_homework, the request and the handling of its response
UploadSend ==
    /\ pc = "send" /\ kind = "upload_homework"
    /\ request' = Request(client_data, path)
    /\ \E status \in Statuses, body \in Bodies :
         /\ response' = Response(status, body)
         /\ log' = log \o <<EvSend, EvResp(status)>>
         /\ IF status >= 400
            THEN Raise(ErrRequestFailed(ParseJson(body)))
            ELSE pc' = "done" /\ result' = ParseJson(body) /\ UNCHANGED error
    /\ UNCHANGED <<taskvars, config, client_data, now, kind, path, retry, after, phase,
                   getStart, login_req, user, callback_arg>>

\* delete_homework is called
CallDeleteHomework ==
    /\ BeginCall("delete_homework", DeletePath, "main")
    /\ pc' = "delete_entry"
    /\ UNCHANGED <<taskvars, config, client_data, now, after, login_req>>

\* delete_homework, from its first line to the request
DeleteEntry ==
    /\ pc = "delete_entry"
    /\ EntryCheck
    /\ UNCHANGED <<taskvars, config, client_data, now, kind, path, retry, phase, getStart,
                   user, request, response, callback_arg>>

\* delete_homework reporting the truthiness of the parsed body
DeleteSend_Truthy ==
    /\ pc = "send" /\ kind = "delete_homework"
    /\ request' = Request(client_data, path)
    /\ \E status \in Statuses, body \in Bodies :
         /\ response' = Response(status, body)
         /\ log' = log \o <<EvSend, EvResp(status)>>
         /\ IF status >= 400
            THEN Raise(ErrRequestFailed(PyText(body)))
            ELSE /\ pc' = "done"
                 /\ result' = PyBool(~Falsy(ParseJson(body)))
                 /\ UNCHANGED error
    /\ UNCHANGED <<taskvars, config, client_data, now, kind, path, retry, after, phase,
                   getStart, login_req, user, callback_arg>>

\* delete_homework, the request and the handling of its response
DeleteSend ==
    /\ pc = "send" /\ kind = "delete_homework"
    /\ request' = Request(client_data, path)
    /\ \E status \in Statuses, body \in Bodies :
         /\ response' = Response(status, body)
         /\ log' = log \o <<EvSend, EvResp(status)>>
         /\ IF status >= 400
            THEN Raise(ErrRequestFailed(PyText(body)))
            ELSE pc' = "done" /\ result' = PyBool(body /= "null") /\ UNCHANGED error
    /\ UNCHANGED <<taskvars, config, client_data, now, kind, path, retry, after, phase,
                   getStart, login_req, user, callback_arg>>

Next ==
    \/ Tick
    \/ Initialize
    \/ InitializeLogin
    \/ LoginRejected
    \/ CallUpdateToken
    \/ UpdateToken
    \/ CallGet
    \/ CallGetScheduleByDate
    \/ CallGetNewsDetails
    \/ CallGetHomework
    \/ GetEntry
    \/ HttpGet
    \/ ReturnGet
    \/ ReturnScheduleByDate
    \/ ReturnNewsDetails
    \/ HomeworkGroupId
    \/ ReturnHomework
    \/ CallUploadHomework
    \/ UploadEntry
    \/ UploadSend
    \/ CallDeleteHomework
    \/ DeleteEntry
    \/ DeleteSend

Spec == Init /\ [][Next]_vars

\* ------------------------------------------------- concurrent get calls
\* Several get calls gathered against one initialized client.  A task may
\* be suspended at every `await` of get and update_token (236-240 | login |
\* 231-233 | 242-258 | login | 236-240 | login | 242-260), which covers
\* every interleaving an event loop can produce.

\* create_client followed by the start of the gathered tasks: the Session is
\* the one initialize builds, from the config or from a login answer
ConcInit ==
    /\ config \in {c \in ClientConfig : /\ c.language = "ru" /\ c.group_id = NoneInt
                                        /\ c.access_token /= NoneStr}
    /\ now = MsPerSec
    /\ IF TruthyStr(config.access_token) /\ TruthyInt(config.token_expires_at)
       THEN /\ client_data = ClientData(config.login_data, config.language,
                                        config.cache, config.access_token,
                                        config.token_expires_at, config.group_id)
            /\ issued = {}
       ELSE \E tok \in Tokens, life \in Lifetimes :
              /\ client_data = InitializeFromLogin(AuthResponse(tok, life))
              /\ issued = {AuthResponse(tok, life)}
    /\ task_pc = [t \in Tasks |-> "entry1"]
    /\ task_auth = "-"
    /\ pc = "idle"
    /\ kind = "-"
    /\ path = NoPath
    /\ retry = TRUE
    /\ after = "-"
    /\ phase = "-"
    /\ getStart = 1
    /\ log = <<>>
    /\ login_req = NoLoginReq
    /\ user = NoUser
    /\ request = NoRequest
    /\ response = NoResponse
    /\ callback_arg = NoPath
    /\ result = NoResult
    /\ error = NoError

\* the clock advances between the steps of the tasks
ConcTick ==
    /\ now + MsPerSec <= MaxNowSec * MsPerSec
    /\ now' = now + MsPerSec
    /\ UNCHANGED <<config, client_data, callvars, taskvars>>

\* get, lines 236-240: the expiry check of the first attempt and of the retry
TaskEntry(t) ==
    /\ task_pc[t] \in {"entry1", "entry2"}
    /\ task_pc' = [task_pc EXCEPT ![t] =
                     IF is_token_expired(client_data, now)
                     THEN (IF task_pc[t] = "entry1" THEN "refresh1" ELSE "refresh2")
                     ELSE (IF task_pc[t] = "entry1" THEN "request1" ELSE "request2")]
    /\ UNCHANGED <<config, client_data, now, callvars, task_auth, issued>>

\* update_token resumed with an AuthResponse: lines 231-233
TaskLogin(t) ==
    /\ task_pc[t] \in {"refresh1", "forced", "refresh2"}
    /\ \E tok \in Tokens, life \in Lifetimes :
         /\ client_data' = UpdatedClientData(client_data, AuthResponse(tok, life))
         /\ issued' = issued \cup {AuthResponse(tok, life)}
    /\ task_pc' = [task_pc EXCEPT ![t] =
                     CASE task_pc[t] = "refresh1" -> "request1"
                       [] task_pc[t] = "forced" -> "entry2"
                       [] task_pc[t] = "refresh2" -> "request2"]
    /\ UNCHANGED <<config, now, callvars, task_auth>>

\* update_token resumed with a list of AuthError: the task's get raises
TaskLoginRejected(t) ==
    /\ task_pc[t] \in {"refresh1", "forced", "refresh2"}
    /\ task_pc' = [task_pc EXCEPT ![t] = "failed"]
    /\ UNCHANGED <<config, client_data, now, callvars, task_auth, issued>>

\* get, lines 242-262: the request with the Session's token of that moment
\* and the handling of the response
TaskRequest(t) ==
    /\ task_pc[t] \in {"request1", "request2"}
    /\ task_auth' = Request(client_data, UserInfoPath).authorization
    /\ \E status \in Statuses :
         task_pc' = [task_pc EXCEPT ![t] =
                       IF status = 401
                       THEN IF config.on_unauthorized THEN "returned"
                            ELSE IF task_pc[t] = "request1" THEN "forced"
                            ELSE "failed"
                       ELSE "returned"]
    /\ UNCHANGED <<config, client_data, now, callvars, issued>>

ConcNext ==
    \/ ConcTick
    \/ \E t \in Tasks : TaskEntry(t)
    \/ \E t \in Tasks : TaskLogin(t)
    \/ \E t \in Tasks : TaskLoginRejected(t)
    \/ \E t \in Tasks : TaskRequest(t)

ConcSpec == ConcInit /\ [][ConcNext]_vars

\* ------------------------------------------------------------ properties
\* the events of the outermost get (or write operation) in progress
Seg == SubSeq(log, getStart, Len(log))
Checks == {EvCheck(TRUE), EvCheck(FALSE)}
Responses == {EvResp(200), EvResp(401), EvResp(500)}
\* the outermost get has returned or raised
GetFinished == pc \in {"get_return", "done"}
\* index of the latest expiry check before position j of the log
LastCheckBefore(j) ==
    CHOOSE i \in 1 .. j - 1 :
        /\ log[i] \in Checks
        /\ \A k \in i + 1 .. j - 1 : log[k] \notin Checks
LoginsBetween(i, j) == Cardinality({k \in i + 1 .. j - 1 : log[k] = EvLoginOk})

\* C1: a get without on_unauthorized never sends more than two requests; the
\* second request is sent only after a 401 answer to the first one and a
\* forced refresh; when the first answer is 401 and the logins succeed the
\* request is retried exactly once; a 401 answer to the retry ends the call
\* with the unauthorized error.
C1_SingleRetry ==
    (kind \in GetKinds /\ ~config.on_unauthorized) =>
        /\ Count(Seg, EvSend) <= 2
        /\ \A j \in DOMAIN Seg :
             (Seg[j] = EvSend /\ \E i \in 1 .. j - 1 : Seg[i] = EvSend) =>
                \E i \in 1 .. j - 1 :
                    /\ Seg[i] = EvResp(401)
                    /\ Count(SubSeq(Seg, 1, i), EvSend) = 1
                    /\ \E k \in i + 1 .. j - 1 : Seg[k] = EvLoginOk
        /\ (GetFinished /\ Count(Seg, EvResp(401)) >= 1
                        /\ Count(Seg, EvLoginRejected) = 0) =>
                Count(Seg, EvSend) = 2
        /\ Count(Seg, EvResp(401)) <= 2
        /\ Count(Seg, EvResp(401)) = 2 =>
                (pc = "done" /\ error = ErrUnauthorized /\ result = NoResult)

C1_Witness ==
    /\ kind = "get" /\ ~config.on_unauthorized /\ pc = "done"
    /\ error = ErrUnauthorized
    /\ Count(Seg, EvSend) = 2 /\ Count(Seg, EvResp(401)) = 2

\* C2: a successful login at time t with lifetime L stores the expiry
\* t + L (in milliseconds), so the token is not expired right after it.
C2_ExpiryIsNowPlusLifetime ==
    [][(log' = Append(log, EvLoginOk) /\ client_data' /= NoClientData) =>
          /\ client_data'.token_expires_at = now + user'.expires_in_access * MsPerSec
          /\ ~is_token_expired(client_data', now')]_vars

\* C3: whenever an authenticated call finds the token expired at its start,
\* exactly one login is performed between that check and the request.
C3_OneRefreshBeforeRequest ==
    kind \in AuthKinds =>
        /\ \A j \in DOMAIN log :
             (log[j] = EvSend /\ log[LastCheckBefore(j)] = EvCheck(TRUE)) =>
                LoginsBetween(LastCheckBefore(j), j) = 1
        /\ (pc = "send" /\ log[LastCheckBefore(Len(log) + 1)] = EvCheck(TRUE)) =>
                LoginsBetween(LastCheckBefore(Len(log) + 1), Len(log) + 1) = 1

C3_Witness ==
    /\ kind = "get_schedule_by_date" /\ pc = "done" /\ error = NoError
    /\ TruthyStr(config.access_token) /\ TruthyInt(config.token_expires_at)
    /\ log = <<EvCheck(TRUE), EvLoginOk, EvSend, EvResp(200)>>

\* C4: while no Session exists an authenticated call neither logs in nor
\* sends a request nor creates a Session, and it ends with the
\* client-not-initialized error; a rejected login creates no Session.
C4_NoSessionState ==
    (kind \in AuthKinds /\ client_data = NoClientData) =>
        /\ log = <<>> /\ user = NoUser /\ request = NoRequest
        /\ pc \in {"get_entry", "upload_entry", "delete_entry", "done"}
        /\ pc = "done" => (error = ErrNotInitialized /\ result = NoResult)

C4_Uninitialized ==
    [][/\ (kind' \in AuthKinds /\ client_data = NoClientData) =>
             (client_data' = NoClientData /\ C4_NoSessionState')
       /\ (pc = "login" /\ error' = ErrAuthentication) =>
             client_data' = client_data]_vars

C4_Witness ==
    /\ kind \in HomeworkKinds /\ pc = "done" /\ client_data = NoClientData
    /\ error = ErrNotInitialized

\* C5: with on_unauthorized configured a 401 answer invokes the callback
\* once with the requested path, get returns None without an error, and the
\* request was sent once with no login after the 401.
C5_CallbackNoRetry ==
    (kind \in GetKinds /\ config.on_unauthorized /\ Count(Seg, EvResp(401)) >= 1) =>
        /\ Count(Seg, EvSend) = 1
        /\ Count(Seg, EvCallback) = 1
        /\ SubSeq(Seg, Len(Seg) - 2, Len(Seg)) = <<EvSend, EvResp(401), EvCallback>>
        /\ callback_arg = path /\ callback_arg = request.path
        /\ GetFinished
        /\ pc = "get_return" => (result = PyNone /\ error = NoError)
        /\ (kind = "get" /\ pc = "done") => (result = PyNone /\ error = NoError)

C5_Witness ==
    /\ kind = "get" /\ pc = "done" /\ config.on_unauthorized
    /\ callback_arg = UserInfoPath /\ result = PyNone

\* C6: 401 on the first request, 200 on the retry, no callback: the call
\* returns the retry's parsed payload without error, the Session holds the
\* token of the latest login and the retried request carried that token.
C6_RetrySucceeds ==
    (/\ kind = "get" /\ ~config.on_unauthorized /\ pc = "done"
     /\ Count(Seg, EvResp(401)) = 1 /\ response.status_code = 200) =>
        /\ error = NoError
        /\ result = ParseJson(response.text)
        /\ client_data.access_token = user.access_token
        /\ request.authorization = user.access_token
        /\ user /= NoUser

C6_Witness ==
    /\ kind = "get" /\ ~config.on_unauthorized /\ pc = "done"
    /\ Count(Seg, EvResp(401)) = 1 /\ response.status_code = 200
    /\ result = ParseJson("data7") /\ request.authorization = "t2"

\* C7: the Session is absent or has a non-empty token and a non-null expiry.
C7_SessionAbsentOrPopulated ==
    \/ client_data = NoClientData
    \/ /\ TruthyStr(client_data.access_token)
       /\ client_data.token_expires_at /= NoneInt

C7_Witness ==
    /\ client_data /= NoClientData /\ kind = "update_token" /\ pc = "done"
    /\ error = ErrAuthentication /\ client_data.access_token \in Tokens

\* C8: a successful update_token changes only the token and the expiry of
\* the Session, leaves the config alone and logs in with config.login_data.
C8_RefreshFrame ==
    [][(pc = "login" /\ after /= "initialize" /\ log' = Append(log, EvLoginOk)) =>
          /\ config' = config
          /\ login_req.username = config.login_data.username
          /\ login_req.password = config.login_data.password
          /\ client_data = NoClientData => client_data' = NoClientData
          /\ client_data /= NoClientData =>
               /\ client_data'.login_data = client_data.login_data
               /\ client_data'.language = client_data.language
               /\ client_data'.cache = client_data.cache
               /\ client_data'.group_id = client_data.group_id
               /\ client_data'.access_token = user'.access_token]_vars

C8_Witness ==
    /\ kind = "update_token" /\ pc = "done" /\ error = NoError
    /\ client_data /= NoClientData
    /\ client_data.group_id /= config.group_id
    /\ client_data.access_token = user.access_token

\* C9: initialize with a config that supplies a token and an expiry (any
\* values, an expiry of 0 included) performs no login and adopts them.
C9_AdoptSuppliedToken ==
    (/\ kind = "initialize"
     /\ config.access_token /= NoneStr /\ config.token_expires_at /= NoneInt) =>
        /\ pc = "done" /\ log = <<>> /\ error = NoError
        /\ client_data /= NoClientData
        /\ client_data.access_token = config.access_token
        /\ client_data.token_expires_at = config.token_expires_at

\* C10: with on_unauthorized configured an accessor whose request is
\* answered 401 completes with an empty result and no error.
C10_AccessorEmptyOn401 ==
    (/\ kind \in GetKinds \ {"get"} /\ config.on_unauthorized /\ pc = "done"
     /\ response.status_code = 401) =>
        (error = NoError /\ result = PyNone)

\* C11: a login rejected inside an authenticated call ends the call with the
\* authentication error: it is the only rejected login of the call, nothing
\* (no login, no request) follows it.
C11_RejectedLoginEndsCall ==
    (kind \in AuthKinds /\ Count(log, EvLoginRejected) >= 1) =>
        /\ Count(log, EvLoginRejected) = 1
        /\ log[Len(log)] = EvLoginRejected
        /\ pc = "done" /\ error = ErrAuthentication /\ result = NoResult

C11_Witness ==
    /\ kind = "get" /\ pc = "done" /\ error = ErrAuthentication
    /\ log = <<EvCheck(TRUE), EvLoginOk, EvSend, EvResp(401), EvLoginRejected>>

\* C13: a homework accessor called with no group id stored fetches user
\* info first; once a group id is stored (whatever its value) a homework
\* accessor sends no user-info request, queries with the stored id and
\* leaves it as it is.
C13_GroupIdCached ==
    [][/\ (Idle /\ kind' \in HomeworkKinds /\ client_data /= NoClientData
                /\ client_data.group_id = NoneInt) => path' = UserInfoPath
       /\ (kind' \in HomeworkKinds /\ client_data /= NoClientData
                /\ client_data.group_id /= NoneInt) =>
             /\ client_data'.group_id = client_data.group_id
             /\ Count(log', EvSend) > Count(log, EvSend) =>
                  request'.path = HomeworkListPath(client_data.group_id)]_vars

\* C14: a write operation answered with an error status other than 401
\* raises the request-failed error carrying the raw response body.
C14_WriteFailureCarriesRawBody ==
    (kind \in WriteKinds /\ pc = "done" /\ response.status_code = 500) =>
        (error = ErrRequestFailed(PyText(response.text)) /\ result = NoResult)

\* C15: delete_homework answered 2xx returns False when the body text is
\* "null" and True for every other body.
C15_DeleteResult ==
    (kind = "delete_homework" /\ pc = "done" /\ response.status_code = 200) =>
        /\ error = NoError
        /\ response.text = "null" => result = PyBool(FALSE)
        /\ response.text /= "null" => result = PyBool(TRUE)

C15_Witness ==
    /\ kind = "delete_homework" /\ pc = "done" /\ response.status_code = 200
    /\ response.text = "null" /\ result = PyBool(FALSE)

\* C16: every entry of get (the retry included), upload_homework and
\* delete_homework on an initialized client evaluates the expiry against
\* the clock and the Session of that moment: expired iff now >= expiry;
\* every request directly follows such a check (and the refresh it
\* triggered); with no Session the token counts as expired.
C16_FreshExpiryCheck ==
    [][/\ (pc \in {"get_entry", "upload_entry", "delete_entry"}
             /\ client_data /= NoClientData) =>
             log' = Append(log, EvCheck(now >= client_data.token_expires_at))
       /\ (pc = "send" /\ pc' /= "send") =>
             \/ log[Len(log)] = EvCheck(FALSE)
             \/ /\ log[Len(log)] = EvLoginOk
                /\ log[Len(log) - 1] = EvCheck(TRUE)
       /\ client_data = NoClientData => is_token_expired(client_data, now)]_vars

C16_Witness ==
    /\ kind = "get" /\ pc = "done"
    /\ Count(Seg, EvCheck(TRUE)) = 1 /\ Count(Seg, EvCheck(FALSE)) = 1
    /\ now = client_data.token_expires_at

\* C17: on the 401 retry path exactly one login lies between the first 401
\* and the retried request, and a get performs at most two logins.
C17_OneLoginOnRetryPath ==
    (kind \in GetKinds /\ ~config.on_unauthorized) =>
        /\ Count(Seg, EvLoginOk) + Count(Seg, EvLoginRejected) <= 2
        /\ \A i, j \in DOMAIN Seg :
             (i < j /\ Seg[i] = EvResp(401) /\ Seg[j] = EvSend) =>
                Count(SubSeq(Seg, i, j), EvLoginOk) = 1

\* C18: a rejected refresh leaves the Session exactly as it was.
C18_FailedRefreshKeepsSession ==
    [][(pc = "login" /\ after /= "initialize"
           /\ log' = Append(log, EvLoginRejected)) =>
          (client_data' = client_data /\ pc' = "done"
              /\ error' = ErrAuthentication)]_vars

C18_Witness ==
    /\ kind = "get" /\ pc = "done" /\ error = ErrAuthentication
    /\ client_data /= NoClientData
    /\ log = <<EvCheck(TRUE), EvLoginRejected>>

\* C19: upload_homework and delete_homework send at most one request, never
\* invoke on_unauthorized, and a 401 answer ends the call with an error
\* with no login and no request after it.
C19_WritesDoNotRetry ==
    kind \in WriteKinds =>
        /\ Count(log, EvSend) <= 1
        /\ Count(log, EvCallback) = 0 /\ callback_arg = NoPath
        /\ (pc = "done" /\ error /= ErrNotInitialized /\ error /= ErrAuthentication) =>
                Count(log, EvSend) = 1
        /\ Count(log, EvResp(401)) >= 1 =>
             /\ log[Len(log)] = EvResp(401)
             /\ pc = "done" /\ error.msg = "request failed" /\ result = NoResult

C19_Witness ==
    /\ kind = "upload_homework" /\ pc = "done" /\ config.on_unauthorized
    /\ response.status_code = 401 /\ error.msg = "request failed"

\* C12: under every interleaving of concurrent get calls the Session's token
\* and expiry come from one and the same login answer (or are the pair the
\* client was initialized with), and every request sent carries the initial
\* token or a token some login answered.
C12_LastWriteWins ==
    /\ \/ /\ TruthyStr(config.access_token) /\ TruthyInt(config.token_expires_at)
          /\ client_data.access_token = config.access_token
          /\ client_data.token_expires_at = config.token_expires_at
       \/ \E u \in issued :
            /\ client_data.access_token = u.access_token
            /\ client_data.token_expires_at = u.expires_in_access * MsPerSec
    /\ \/ task_auth = "-"
       \/ TruthyStr(config.access_token) /\ TruthyInt(config.token_expires_at)
            /\ task_auth = config.access_token
       \/ \E u \in issued : task_auth = u.access_token

\* two tasks each found the token expired and each refreshed it
C12_Witness ==
    /\ TruthyStr(config.access_token) /\ TruthyInt(config.token_expires_at)
    /\ task_pc[1] = "request1" /\ task_pc[2] = "returned"
    /\ Cardinality(issued) = 2
    /\ task_auth \in Tokens /\ task_auth /= client_data.access_token

====
